---- MODULE Spec2Model ----
(***************************************************************************)
(* Model of the markdown-writer worker: the chunk splitter (splitHtml),    *)
(* the run orchestrator (BaseWriter.run with LlamaWriter / GeminiWriter),  *)
(* and the fetch / queue handlers that drive it.                           *)
(*                                                                         *)
(* Strings are sequences of one-character strings, so that slicing,        *)
(* lastIndexOf and the three regular expressions of splitHtml are computed *)
(* as the code computes them.                                              *)
(***************************************************************************)
EXTENDS Integers, Sequences, FiniteSets, TLC

\* ------------------------------------------------------------------ bounds

\* Longest input string handed to splitHtml.
MaxLen == 5

\* Largest maxChunkSize tried on the splitter.
MaxChunk == 4

\* ------------------------------------------------------------- characters

Alphabet == {"<", ">", "/", " ", "a", "b"}

RECURSIVE StringsUpTo(_)
StringsUpTo(n) ==
    IF n = 0 THEN {<<>>}
    ELSE LET shorter == StringsUpTo(n - 1)
         IN  shorter \cup {Append(s, c) : s \in {t \in shorter : Len(t) = n - 1}, c \in Alphabet}

\* ------------------------------------------------- JavaScript string helpers

\* String.prototype.lastIndexOf(c): 0-based index of the last c, -1 if none.
LastIndexOf(s, c) ==
    LET hits == {k \in 1..Len(s) : s[k] = c}
    IN  IF hits = {} THEN -1
        ELSE (CHOOSE k \in hits : \A m \in hits : m <= k) - 1

\* String.prototype.slice(from, to) for 0 <= from, 0 <= to (0-based, to exclusive).
Slice(s, from, to) ==
    LET hi == IF to > Len(s) THEN Len(s) ELSE to
    IN  IF from >= hi THEN <<>> ELSE SubSeq(s, from + 1, hi)

\* String.prototype.slice(from): the rest of the string from index from.
SliceFrom(s, from) == Slice(s, from, Len(s))

\* `.` of a JavaScript regular expression does not match a line terminator.
LineTerminator(c) == c = "\n" \/ c = "\r"

\* tagContent.match(/^<\//)
IsClosingTag(tagContent) ==
    Len(tagContent) >= 2 /\ tagContent[1] = "<" /\ tagContent[2] = "/"

\* tagContent.match(/^<.*\/>/): "<", any run without a line terminator, "/>".
IsSelfClosing(tagContent) ==
    /\ Len(tagContent) >= 3
    /\ tagContent[1] = "<"
    /\ \E k \in 2..(Len(tagContent) - 1) :
          /\ tagContent[k] = "/"
          /\ tagContent[k + 1] = ">"
          /\ \A m \in 2..(k - 1) : ~LineTerminator(tagContent[m])

\* tagContent.match(/^<([^ >]+)/)?.[1]: the longest run after "<" with no space
\* and no ">"; the empty string stands for "no match".
TagName(tagContent) ==
    LET stop == {k \in 2..Len(tagContent) : tagContent[k] = " " \/ tagContent[k] = ">"}
        last == IF stop = {} THEN Len(tagContent)
                ELSE (CHOOSE k \in stop : \A m \in stop : k <= m) - 1
    IN  IF Len(tagContent) >= 1 /\ tagContent[1] = "<" /\ last >= 2
        THEN SubSeq(tagContent, 2, last)
        ELSE <<>>

\* Array.prototype.pop(): removes the last entry, a no-op on the empty array.
Pop(stack) == IF stack = <<>> THEN <<>> ELSE SubSeq(stack, 1, Len(stack) - 1)

\* The tag classification of splitHtml, applied to the stack when a tag token ends.
PushIfNamed(stack, tagContent) ==
    IF TagName(tagContent) # <<>> THEN Append(stack, TagName(tagContent)) ELSE stack

StackAfterTag(stack, tagContent) ==
    IF IsClosingTag(tagContent) THEN Pop(stack)
    ELSE IF ~IsSelfClosing(tagContent) THEN PushIfNamed(stack, tagContent)
    ELSE stack

\* for (j = length - 1; j >= 0; j--) chunkToAdd += `</${tagStack[j]}>`
RECURSIVE ClosingTags(_)
ClosingTags(stack) ==
    IF stack = <<>> THEN <<>>
    ELSE <<"<", "/">> \o stack[Len(stack)] \o <<">">> \o ClosingTags(Pop(stack))

\* for (j = 0; j < length; j++) currentChunk += `<${tagStack[j]}>`
RECURSIVE OpeningTags(_)
OpeningTags(stack) ==
    IF stack = <<>> THEN <<>>
    ELSE <<"<">> \o stack[1] \o <<">">> \o OpeningTags(Tail(stack))

\* let splitIndex = currentChunk.lastIndexOf(' '); if (splitIndex === -1) splitIndex = length
SplitIndexOf(acc) ==
    IF LastIndexOf(acc, " ") = -1 THEN Len(acc) ELSE LastIndexOf(acc, " ")

\* chunkToAdd: the accumulator up to the split index, then the closing tags.
ChunkToAdd(acc, stack) == Slice(acc, 0, SplitIndexOf(acc)) \o ClosingTags(stack)

\* The accumulator after a split: currentChunk = ''; the opening tags are added;
\* then currentChunk += currentChunk.slice(splitIndex), which slices the string
\* that was just rebuilt, not the accumulator that was split.
NextChunkStart(acc, stack) ==
    OpeningTags(stack) \o SliceFrom(OpeningTags(stack), SplitIndexOf(acc))

\* ------------------------------------------------------- one loop iteration

\* The locals of splitHtml; splitIndex is -1 and splitAcc empty in an iteration
\* that did not split.
InitScan ==
    [chunks |-> <<>>, currentChunk |-> <<>>, tagStack |-> <<>>,
     inTag |-> FALSE, tagContent |-> <<>>, splitIndex |-> -1, splitAcc |-> <<>>]

\* A split that pushes the chunk twice.
SplitNowTwice(s, acc) ==
    [s EXCEPT !.chunks = Append(Append(s.chunks, ChunkToAdd(acc, s.tagStack)),
                                ChunkToAdd(acc, s.tagStack)),
              !.currentChunk = NextChunkStart(acc, s.tagStack),
              !.splitIndex = SplitIndexOf(acc),
              !.splitAcc = acc]

SplitNow(s, acc) ==
    [s EXCEPT !.chunks = Append(s.chunks, ChunkToAdd(acc, s.tagStack)),
              !.currentChunk = NextChunkStart(acc, s.tagStack),
              !.splitIndex = SplitIndexOf(acc),
              !.splitAcc = acc]

\* The size test of the loop: currentChunk.length >= maxChunkSize && !inTag.
ChunkIsFull(acc, inTagNow, max) == Len(acc) >= max /\ ~inTagNow

ScanChar(s0, char, max) ==
    LET s == [s0 EXCEPT !.splitIndex = -1, !.splitAcc = <<>>]
    IN  IF char = "<"
        THEN [s EXCEPT !.inTag = TRUE, !.tagContent = <<char>>]
        ELSE IF s.inTag
        THEN IF char = ">"
             THEN [s EXCEPT !.inTag = FALSE,
                            !.tagStack = StackAfterTag(s.tagStack, Append(s.tagContent, char)),
                            !.currentChunk = s.currentChunk \o Append(s.tagContent, char),
                            !.tagContent = <<>>]
             ELSE [s EXCEPT !.tagContent = Append(s.tagContent, char)]
        ELSE IF ChunkIsFull(Append(s.currentChunk, char), s.inTag, max)
             THEN SplitNow(s, Append(s.currentChunk, char))
             ELSE [s EXCEPT !.currentChunk = Append(s.currentChunk, char)]

\* The remaining accumulator pushed with closing tags for the open elements.
FinalChunksClosed(s) ==
    IF s.currentChunk # <<>>
    THEN Append(s.chunks, s.currentChunk \o ClosingTags(s.tagStack)) ELSE s.chunks

\* if (currentChunk) chunks.push(currentChunk); return chunks
FinalChunks(s) ==
    IF s.currentChunk # <<>> THEN Append(s.chunks, s.currentChunk) ELSE s.chunks

RECURSIVE ScanFrom(_, _, _, _)
ScanFrom(s, str, k, max) ==
    IF k > Len(str) THEN s ELSE ScanFrom(ScanChar(s, str[k], max), str, k + 1, max)

\* splitHtml as a function of its input and this.maxChunkSize.
SplitHtml(str, max) == FinalChunks(ScanFrom(InitScan, str, 1, max))


\* ---------------------------------------------------------------- state

VARIABLES
    html,           \* splitHtml: the input string
    maxChunkSize,   \* splitHtml: this.maxChunkSize
    i,              \* splitHtml: characters of html read so far
    scan,           \* splitHtml: the locals (chunks, currentChunk, tagStack, inTag, tagContent)
    spPc,           \* splitHtml: "off", "scan" (in the loop) or "done" (returned)
    seeded,         \* length of the opening tags re-inserted at the start of currentChunk
    marks,          \* per pushed chunk: re-inserted opening tags and appended closing tags
    task,           \* per handler invocation: its position, writer, run log and response
    queue,          \* CREATE_MARKDOWN_QUEUE: the bodies waiting for delivery
    knowledge,      \* KNOWLEDGE_BUCKET: r2Key -> the markdown stored under `${r2Key}.md`
    createdAt,      \* PageMetadata.markdown_created_at: docId -> set or not
    returnMarkdown, \* env.RETURN_MARKDOWN === "true"
    write,          \* LlamaWriter.writeMarkdown: fragments, chunks and the prompt built from them
    pre             \* LlamaWriter.preprocessHTML: the document, the rules and the fragments

splitVars == <<html, maxChunkSize, i, scan, spPc, seeded, marks>>

workerVars == <<task, queue, knowledge, createdAt, returnMarkdown>>

writeVars == <<write>>

preVars == <<pre>>

vars == <<html, maxChunkSize, i, scan, spPc, seeded, marks,
          task, queue, knowledge, createdAt, returnMarkdown, write, pre>>

\* ------------------------------------------------------ worker: the data


\* MarkdownModel
LLAMA == "llama-3.3"

GEMINI_2_FLASH == "gemini-2.0-flash-exp"

DEFAULT_MAX_CHUNK_SIZE == 114688

\* Strings that new URL() accepts, and one non-empty string that it rejects.
Urls == {"u1", "u2"}

BadUrl == "not a url"

\* The PageMetadata row of a url: String(pageMetadata.id), String(pageMetadata.r2_path).
DocIdOf(url) == <<"doc", url>>

\* Every row holding the same r2_path.
R2KeyOfShared(url) == <<"r2", "u1">>

R2KeyOf(url) == <<"r2", url>>

\* PageMetadata holds rows of crawled pages only, so of urls that parse.
DocIds == {DocIdOf(u) : u \in Urls}

R2Keys == {R2KeyOf(u) : u \in Urls}

\* The non-empty text the generation service answers to the run of handler t
\* (String(response.response) / response.response.text()).
MarkdownOf(t) == <<"markdown", t>>

\* The handler invocations of the model.
Tasks == {"t1", "t2"}

\* preprocessHTML is not in progress.
PreOff ==
    pre = [pc |-> "off", html |-> <<>>, htmlTitle |-> <<>>, doc |-> <<>>, rules |-> <<>>,
           idx |-> 0, title |-> <<>>, processedHtml |-> <<>>, selected |-> <<>>,
           call |-> 0, earlier |-> <<>>]

\* writeMarkdown of the Llama variant is not in progress.
WriteOff ==
    write = [pc |-> "off", processedHtml |-> <<>>, title |-> <<>>, additionalPrompt |-> <<>>,
             chunks |-> <<>>, splits |-> <<>>, messages |-> <<>>]

\* The worker is not part of the splitter's specification.
WorkerOff ==
    /\ task = [t \in Tasks |-> [kind |-> "off", pc |-> "off"]]
    /\ queue = <<>>
    /\ knowledge = [k \in R2Keys |-> <<>>]
    /\ createdAt = [d \in DocIds |-> FALSE]
    /\ returnMarkdown = FALSE

\* ------------------------------------------------------------- splitHtml

SplitSizes == 0..MaxChunk

SplitInit ==
    /\ html \in StringsUpTo(MaxLen)
    /\ maxChunkSize \in SplitSizes
    /\ i = 0
    /\ scan = InitScan
    /\ spPc = "scan"
    /\ seeded = 0
    /\ marks = <<>>
    /\ WorkerOff
    /\ WriteOff
    /\ PreOff

\* One iteration of the for loop over the characters of html.
SplitLoop ==
    /\ spPc = "scan"
    /\ i < Len(html)
    /\ LET next == ScanChar(scan, html[i + 1], maxChunkSize)
       IN  /\ scan' = next
           /\ IF next.splitIndex # -1
              THEN /\ marks' = Append(marks, [seed |-> seeded,
                                              close |-> Len(ClosingTags(scan.tagStack))])
                   /\ seeded' = Len(OpeningTags(scan.tagStack))
              ELSE UNCHANGED <<marks, seeded>>
    /\ i' = i + 1
    /\ UNCHANGED <<html, maxChunkSize, spPc>>
    /\ UNCHANGED <<workerVars, writeVars, preVars>>

\* After the loop: the remaining accumulator is pushed and the chunks returned.
SplitFinish ==
    /\ spPc = "scan"
    /\ i = Len(html)
    /\ scan' = [scan EXCEPT !.chunks = FinalChunks(scan), !.splitIndex = -1, !.splitAcc = <<>>]
    /\ marks' = IF scan.currentChunk # <<>>
                THEN Append(marks, [seed |-> seeded, close |-> 0])
                ELSE marks
    /\ spPc' = "done"
    /\ UNCHANGED <<html, maxChunkSize, i, seeded>>
    /\ UNCHANGED <<workerVars, writeVars, preVars>>

SplitNext == SplitLoop \/ SplitFinish

SpecSplit == SplitInit /\ [][SplitNext]_vars


\* ------------------------------------------------ properties of splitHtml

\* A string read on its own ends after a "<" that has no closing ">".
EndsInsideTag(s) ==
    \E j \in 1..Len(s) : s[j] = "<" /\ \A m \in (j + 1)..Len(s) : s[m] # ">"

\* Character k of s belongs to a tag token: it is a "<", or a "<" before it has
\* not been closed yet.
InsideTagToken(s, k) ==
    \/ s[k] = "<"
    \/ \E j \in 1..(k - 1) : s[j] = "<" /\ \A m \in (j + 1)..(k - 1) : s[m] # ">"

\* Character k of s is a non-space character outside every tag token.
WordChar(s, k) == k \in 1..Len(s) /\ ~InsideTagToken(s, k) /\ s[k] # " "

\* The length of the maximal run of word characters of s that holds position k.
RunLength(s, k) ==
    LET first == CHOOSE j \in 1..k :
                    /\ \A m \in j..k : WordChar(s, m)
                    /\ ~WordChar(s, j - 1)
        last  == CHOOSE j \in k..Len(s) :
                    /\ \A m \in k..j : WordChar(s, m)
                    /\ ~WordChar(s, j + 1)
    IN  last - first + 1

\* Some tag token or some word of s is longer than max.
HasLongToken(s, max) ==
    \E j \in 1..Len(s), k \in 1..Len(s) :
        /\ k - j + 1 > max
        /\ \/ s[j] = "<" /\ s[k] = ">" /\ \A m \in j..(k - 1) : s[m] # ">"
           \/ \A m \in j..k : WordChar(s, m)

\* The elements left open by a string read on its own (the splitter's own tag
\* discipline, with no split taken).
OpenElements(s) == ScanFrom(InitScan, s, 1, Len(s) + 1).tagStack

IsPrefix(p, s) == Len(p) <= Len(s) /\ SubSeq(s, 1, Len(p)) = p

\* The last iteration of the loop took a split.
JustSplit == spPc = "scan" /\ scan.splitIndex # -1

\* The body of the chunk pushed by the last split: the accumulator up to the split point.
SplitBody == Slice(scan.splitAcc, 0, scan.splitIndex)

LastChunk == scan.chunks[Len(scan.chunks)]

\* Chunk k without the opening tags re-inserted at its start and the closing
\* tags appended at its end.
StripInserted(k) ==
    Slice(scan.chunks[k], marks[k].seed, Len(scan.chunks[k]) - marks[k].close)

RECURSIVE Rebuilt(_)
Rebuilt(k) == IF k = 0 THEN <<>> ELSE Rebuilt(k - 1) \o StripInserted(k)

\* C1: for any input and maxChunkSize >= 1, no chunk returned by splitHtml ends
\* inside a tag token: read on its own, no chunk finishes after a "<" that has
\* no closing ">".
C1_NoChunkEndsInsideTag ==
    maxChunkSize >= 1 =>
        \A k \in 1..Len(scan.chunks) : ~EndsInsideTag(scan.chunks[k])

\* C2: the closing tags appended to a non-final chunk are exactly the elements
\* open at its split point, innermost first, and the next chunk begins with
\* opening tags for the same elements, outermost first.
C2_ClosesExactlyOpenElements ==
    (maxChunkSize >= 1 /\ JustSplit) =>
        /\ LastChunk = SplitBody \o ClosingTags(OpenElements(SplitBody))
        /\ IsPrefix(OpeningTags(OpenElements(SplitBody)), scan.currentChunk)

\* C3: content preservation: without the re-inserted opening tags and the
\* appended closing tags, the chunks concatenated in order are the input, and
\* the text after the split point is carried over into the next chunk.
C3_ContentPreserved ==
    maxChunkSize >= 1 =>
        /\ spPc = "done" => Rebuilt(Len(scan.chunks)) = html
        /\ JustSplit =>
              scan.currentChunk =
                  OpeningTags(scan.tagStack) \o SliceFrom(scan.splitAcc, scan.splitIndex)

\* C4: word-boundary property: a split taken with no space in the accumulator
\* (the boundary then falls right after the character just read) does not fall
\* strictly inside a run of word characters, unless that run alone is longer
\* than maxChunkSize.
C4_NoSplitInsideWord ==
    (/\ maxChunkSize >= 1
     /\ JustSplit
     /\ scan.splitIndex = Len(scan.splitAcc)
     /\ WordChar(html, i)
     /\ WordChar(html, i + 1))
        => RunLength(html, i) > maxChunkSize

\* C5: every returned chunk, closing and opening tags included, has length
\* <= maxChunkSize, unless it holds a tag token or a word that is itself longer
\* than maxChunkSize.
C5_ChunkWithinMax ==
    maxChunkSize >= 1 =>
        \A k \in 1..Len(scan.chunks) :
            \/ Len(scan.chunks[k]) <= maxChunkSize
            \/ HasLongToken(scan.chunks[k], maxChunkSize)

\* C6: an input with no space and no tag that is longer than maxChunkSize comes
\* back as one oversized chunk holding the whole run: it is never cut.
C6_LongWordKeptWhole ==
    (/\ maxChunkSize >= 1
     /\ spPc = "done"
     /\ Len(html) > maxChunkSize
     /\ \A k \in 1..Len(html) : html[k] # " " /\ html[k] # "<")
        => scan.chunks = <<html>>


\* ------------------------------------------------- worker: requests, writers

\* Most messages waiting in or delivered from CREATE_MARKDOWN_QUEUE at a time.
MaxQueue == 2

Methods == {"GET", "POST", "PUT"}

\* RequestBody values with a url: optional fields are present or not, as in the
\* JSON. additionalPrompt and maxTokens only reach the generation service,
\* whose answer is any answer, and are left out.
Bodies ==
    [url : {"u1", BadUrl}]
        \cup [url : {"u1"}, maxChunkSize : {0, 2}]
        \cup [url : {"u1"}, model : {GEMINI_2_FLASH}]

\* A body for which !body.url holds.
BodyWithoutUrl == [maxChunkSize |-> 2]

\* new URL(url) returns for these strings and throws a TypeError for any other.
UrlParses(url) == url \in Urls

\* switch (body.model) { case GEMINI_2_FLASH: GeminiWriter; default: LlamaWriter }
IsGemini(body) == "model" \in DOMAIN body /\ body.model = GEMINI_2_FLASH

\* maxChunkSize: number = DEFAULT_MAX_CHUNK_SIZE: the default stands in for undefined only.
ChunkSizeOf(body) ==
    IF "maxChunkSize" \in DOMAIN body THEN body.maxChunkSize ELSE DEFAULT_MAX_CHUNK_SIZE

\* The LlamaWriter constructor parses the url; the GeminiWriter constructor does not.
ConstructorThrows(body) == ~IsGemini(body) /\ ~UrlParses(body.url)

NoId == <<>>

NoWriter == [model |-> "none"]

NewWriter(body) ==
    IF IsGemini(body)
    THEN [model |-> GEMINI_2_FLASH, url |-> body.url, docId |-> NoId, r2Key |-> NoId]
    ELSE [model |-> LLAMA, url |-> body.url, maxChunkSize |-> ChunkSizeOf(body),
          docId |-> NoId, r2Key |-> NoId]

\* ------------------------------------------------------ worker: run results

NoResult == [status |-> "none"]

\* The catch of run() classifying the exception as not retryable.
SoftFailAsHardFail == [message |-> "e.message", status |-> "hardfail", code |-> 500]

\* catch (e) { return {"message": e.message, "status": "softfail", "code": 500} }
SoftFail == [message |-> "e.message", status |-> "softfail", code |-> 500]

\* The not-found result classified as a retryable failure.
MetadataNotFoundAsSoftFail ==
    [message |-> "URL not found in D1 PageMetadata", status |-> "softfail", code |-> 500]

\* return {"message": "URL not found in D1 PageMetadata", "status": "hardfail", "code": 404}
MetadataNotFound ==
    [message |-> "URL not found in D1 PageMetadata", status |-> "hardfail", code |-> 404]

\* The missing raw content classified as a retryable failure.
HtmlNotFoundAsSoftFail == [message |-> "HTML not found from R2", status |-> "softfail", code |-> 500]

\* return {"message": "HTML not found from R2", "status": "hardfail", "code": 404}
HtmlNotFound == [message |-> "HTML not found from R2", status |-> "hardfail", code |-> 404]

GenerationFailed ==
    [message |-> "Failed to generate markdown", status |-> "hardfail", code |-> 500]

Success(markdown) ==
    [message |-> "Markdown saved to Knowledge Bucket", status |-> "success", code |-> 200,
     markdown |-> markdown]

\* Settle with the hardfail case asking for redelivery.
SettleRetryingHardfail(status) ==
    CASE status = "hardfail" -> <<"retry">>
      [] status = "softfail" -> <<"retry">>
      [] status = "success"  -> <<"ack">>
      [] OTHER               -> <<>>

\* The switch of the queue handler on result.status: the calls made on the message.
Settle(status) ==
    CASE status = "hardfail" -> <<"ack">>
      [] status = "softfail" -> <<"retry">>
      [] status = "success"  -> <<"ack">>
      [] OTHER               -> <<>>

\* Respond without the test of RETURN_MARKDOWN.
RespondAlwaysWithMarkdown(result, withMarkdown) ==
    IF "markdown" \in DOMAIN result
    THEN [message |-> result.message, status |-> result.status, code |-> result.code,
          markdown |-> result.markdown]
    ELSE [message |-> result.message, status |-> result.status, code |-> result.code]

\* The response of a POST: the markdown is added when RETURN_MARKDOWN is "true"
\* (JSON drops it when the result has none).
Respond(result, withMarkdown) ==
    IF withMarkdown /\ "markdown" \in DOMAIN result
    THEN [message |-> result.message, status |-> result.status, code |-> result.code,
          markdown |-> result.markdown]
    ELSE [message |-> result.message, status |-> result.status, code |-> result.code]

Reject(message, code) == [message |-> message, status |-> "failed", code |-> code]

\* The 202 response of a PUT whose body was sent to the queue.
Accepted(body) ==
    [message |-> "Request Accepted", status |-> "success", code |-> 202, request |-> body]

NoResponse == [status |-> "none"]

\* A send that puts the body on the queue twice.
EnqueueTwice(q, body) == Append(Append(q, body), body)

\* await env.CREATE_MARKDOWN_QUEUE.send(body)
Enqueue(q, body) == Append(q, body)

\* --------------------------------------------------- worker: a handler's state

NoMarkdown == <<"undefined">>

\* One run(): the external calls it made with what each returned, the number of
\* fragments preprocessHTML returned (if it did), the maxChunkSize splitHtml was
\* entered with (if it was), and the result returned.
NewRun == [calls |-> <<>>, fragments |-> <<>>, split |-> <<>>, result |-> NoResult]

\* What fetch reads of a request before it acts: whether the Authorization
\* header carries env.API_TOKEN, the method, and whether the body has a url.
NoRequest == [method |-> "none"]

Request(authorized, method, body) ==
    [authorized |-> authorized, method |-> method, url |-> "url" \in DOMAIN body]

\* A handler invocation: the bodies it works on (one for a POST, the batch for a
\* queue delivery), the message it is at, the calls made on each message and the
\* status run() returned for it, the run in progress (or the last one), the run
\* before it, the writer, the local markdown of run(), and the HTTP response.
IdleTask ==
    [kind |-> "none", pc |-> "idle", batch |-> <<>>, idx |-> 0, msgCalls |-> <<>>,
     statuses |-> <<>>, run |-> NewRun, finished |-> NewRun, writer |-> NoWriter,
     markdown |-> NoMarkdown, response |-> NoResponse, request |-> NoRequest]

\* A handler that takes up the bodies of batch: one for a POST, the messages for a queue delivery.
NewTask(kind, batch) ==
    [IdleTask EXCEPT !.kind = kind, !.batch = batch,
                     !.msgCalls = [k \in 1..Len(batch) |-> <<>>],
                     !.statuses = [k \in 1..Len(batch) |-> "none"]]

\* new LlamaWriter(...) / new GeminiWriter(...) for body k, then writer.run() up to
\* its first await; a constructor that throws ends the handler.
StartRun(tk, k) ==
    IF ConstructorThrows(tk.batch[k])
    THEN [tk EXCEPT !.pc = "crashed", !.idx = k, !.writer = NoWriter,
                    !.finished = tk.run, !.run = NewRun]
    ELSE [tk EXCEPT !.pc = "loadMeta", !.idx = k, !.writer = NewWriter(tk.batch[k]),
                    !.finished = tk.run, !.run = NewRun]

Logged(tk, name, ret) ==
    [tk EXCEPT !.run.calls = Append(@, [call |-> name, ret |-> ret])]

\* run() returns result and its caller goes on: fetch answers; queue settles the
\* message and takes the next one of the batch.
Finish(tk, result, withMarkdown) ==
    LET returned == [tk EXCEPT !.run.result = result, !.statuses[tk.idx] = result.status,
                               !.markdown = NoMarkdown]
    IN  IF tk.kind = "fetch"
        THEN [returned EXCEPT !.pc = "done", !.response = Respond(result, withMarkdown)]
        ELSE LET settled == [returned EXCEPT !.msgCalls[tk.idx] = @ \o Settle(result.status)]
             IN  IF tk.idx < Len(tk.batch)
                 THEN StartRun(settled, tk.idx + 1)
                 ELSE [settled EXCEPT !.pc = "done"]

\* Messages sent and not yet finally handled.
InFlight ==
    LET taken(t) == IF task[t].kind = "queue" THEN Len(task[t].batch) ELSE 0
        RECURSIVE Sum(_)
        Sum(S) == IF S = {} THEN 0
                  ELSE LET t == CHOOSE x \in S : TRUE IN taken(t) + Sum(S \ {t})
    IN  Len(queue) + Sum(Tasks)


\* ------------------------------------------------- worker: writeMarkdown

\* What preprocessHTML may return as processedHtml. Without rules it is the one
\* body text; with rules it holds one fragment per matching rule, possibly none.
FragmentChoices(hasRules) ==
    IF hasRules
    THEN {<<>>, << <<"a", "b">> >>, << <<"a", "b">>, <<"a", " ", "b">> >>}
    ELSE {<< <<>> >>, << <<"a", "b">> >>}

\* processedHtml.join("\n\n")
RECURSIVE Join(_)
Join(frags) ==
    IF frags = <<>> THEN <<>>
    ELSE IF Len(frags) = 1 THEN frags[1]
    ELSE frags[1] \o <<"\n", "\n">> \o Join(Tail(frags))

\* The test made on the length of the joined fragments.
NeedsSplitOnTotal(frags, max) == Len(Join(frags)) > max

\* processedHtml.reduce((acc, curr) => acc || curr.length > this.maxChunkSize, false)
NeedsSplit(frags, max) == \E k \in 1..Len(frags) : Len(frags[k]) > max

\* The chunks writeMarkdown of the Llama variant hands to generateMarkdown.
ChunksFor(frags, max) == IF NeedsSplit(frags, max) THEN SplitHtml(Join(frags), max) ELSE frags

\* LlamaWriter.writeMarkdown from the rules to the call of the model: splitHtml
\* is entered, with this.maxChunkSize, when a fragment is too long.
Prepared(tk, frags) ==
    [tk EXCEPT !.pc = "generate",
               !.run.fragments = <<Len(frags)>>,
               !.run.split =
                   IF NeedsSplit(frags, tk.writer.maxChunkSize)
                   THEN <<tk.writer.maxChunkSize>> ELSE <<>>]

\* ------------------------------------------------------ worker: the actions

Room == InFlight < MaxQueue

\* The first two tests of fetch made in the other order.
GateMethodFirst(authorized, method) ==
    IF method # "POST" /\ method # "PUT" THEN Reject("Invalid request method", 405)
    ELSE IF ~authorized THEN Reject("Unauthorized", 401)
    ELSE NoResponse

\* fetch before it reads the body: the test of the API key, then of the method.
Gate(authorized, method) ==
    IF ~authorized THEN Reject("Unauthorized", 401)
    ELSE IF method # "POST" /\ method # "PUT" THEN Reject("Invalid request method", 405)
    ELSE NoResponse

\* fetch: the gate, then the writer and run() up to its first await (POST) or
\* the send to the queue (PUT). request.json() may throw, and so may the
\* constructor: the exception leaves the handler.
FetchRequest(t) ==
    /\ task[t].pc = "idle"
    /\ \E authorized \in BOOLEAN, method \in Methods, parses \in BOOLEAN,
          body \in Bodies \cup {BodyWithoutUrl}, sent \in BOOLEAN :
          LET request == Request(authorized, method, body)
              start(batch) == [NewTask("fetch", batch) EXCEPT !.request = request]
              answer(r) == [start(<<>>) EXCEPT !.pc = "done", !.response = r]
          IN  /\ sent \/ (authorized /\ method = "PUT" /\ parses /\ "url" \in DOMAIN body)
              /\ IF Gate(authorized, method) # NoResponse
                 THEN task' = [task EXCEPT ![t] = answer(Gate(authorized, method))]
                      /\ UNCHANGED queue
                 ELSE IF ~parses
                 THEN task' = [task EXCEPT ![t] = [start(<<>>) EXCEPT !.pc = "crashed"]]
                      /\ UNCHANGED queue
                 ELSE IF "url" \notin DOMAIN body
                 THEN task' = [task EXCEPT ![t] = answer(Reject("URL parameter is missing", 400))]
                      /\ UNCHANGED queue
                 ELSE IF method = "POST"
                 THEN task' = [task EXCEPT ![t] = StartRun(start(<<body>>), 1)]
                      /\ UNCHANGED queue
                 ELSE IF sent /\ Room
                 THEN task' = [task EXCEPT ![t] = answer(Accepted(body))]
                      /\ queue' = Enqueue(queue, body)
                 ELSE /\ ~sent
                      /\ task' = [task EXCEPT ![t] =
                                    answer(Reject("Failed to send message to queue", 500))]
                      /\ UNCHANGED queue
    /\ UNCHANGED <<knowledge, createdAt, returnMarkdown>>
    /\ UNCHANGED <<splitVars, writeVars, preVars>>

\* queue: a batch is delivered; the first message's writer is built and run.
QueueDeliver(t) ==
    /\ task[t].pc = "idle"
    /\ queue # <<>>
    /\ \E n \in 1..Len(queue) :
          /\ task' = [task EXCEPT ![t] = StartRun(NewTask("queue", SubSeq(queue, 1, n)), 1)]
          /\ queue' = SubSeq(queue, n + 1, Len(queue))
    /\ UNCHANGED <<knowledge, createdAt, returnMarkdown>>
    /\ UNCHANGED <<splitVars, writeVars, preVars>>

\* run: await this.loadPageMetadata()
LoadPageMetadata(t) ==
    /\ task[t].pc = "loadMeta"
    /\ \E ret \in {"raise", "absent", "row"} :
          LET tk == Logged(task[t], "meta", ret)
          IN  /\ ret = "row" => UrlParses(tk.writer.url)
              /\ task' = [task EXCEPT ![t] =
                 IF ret = "raise" THEN Finish(tk, SoftFail, returnMarkdown)
                 ELSE IF ret = "absent" THEN Finish(tk, MetadataNotFound, returnMarkdown)
                 ELSE [tk EXCEPT !.pc = "getHtml",
                                 !.writer.docId = DocIdOf(tk.writer.url),
                                 !.writer.r2Key = R2KeyOf(tk.writer.url)]]
    /\ UNCHANGED <<queue, knowledge, createdAt, returnMarkdown>>
    /\ UNCHANGED <<splitVars, writeVars, preVars>>

\* A test of the raw content for null only: an empty text passes it.
NoHtmlOnlyNull(ret) == ret = "absent"

\* run: if (!html), on what getHtml returned: null for an absent object, ""
\* for an object that exists and is empty.
NoHtml(ret) == ret \in {"absent", "empty"}

\* run: await this.getHtml(); the Gemini variant then preprocesses the HTML
\* (which may throw) and calls the model; the Llama variant reads the rules first.
GetHtml(t) ==
    /\ task[t].pc = "getHtml"
    /\ \E ret \in {"raise", "absent", "empty", "text"}, parsed \in BOOLEAN :
          LET tk == Logged(task[t], "raw", ret)
          IN  /\ parsed \/ (ret = "text" /\ tk.writer.model = GEMINI_2_FLASH)
              /\ task' = [task EXCEPT ![t] =
                 IF ret = "raise" THEN Finish(tk, SoftFail, returnMarkdown)
                 ELSE IF NoHtml(ret) THEN Finish(tk, HtmlNotFound, returnMarkdown)
                 ELSE IF tk.writer.model = LLAMA THEN [tk EXCEPT !.pc = "rules"]
                 ELSE IF ~parsed
                 THEN Finish(Logged(tk, "preprocess", "raise"), SoftFail, returnMarkdown)
                 ELSE [tk EXCEPT !.pc = "generate"]]
    /\ UNCHANGED <<queue, knowledge, createdAt, returnMarkdown>>
    /\ UNCHANGED <<splitVars, writeVars, preVars>>

\* LlamaWriter.writeMarkdown: await this.getHtmlPreprocessRules(), then
\* preprocessHTML and, if a fragment is too long, splitHtml.
GetRules(t) ==
    /\ task[t].pc = "rules"
    /\ \E ret \in {"raise", "absent", "badjson", "rules"} :
          LET tk == Logged(task[t], "kv", ret)
          IN  \/ /\ ret \in {"raise", "badjson"}
                 /\ task' = [task EXCEPT ![t] = Finish(tk, SoftFail, returnMarkdown)]
              \/ /\ ret \in {"absent", "rules"}
                 /\ \/ task' = [task EXCEPT ![t] =
                           Finish(Logged(tk, "preprocess", "raise"), SoftFail, returnMarkdown)]
                    \/ \E frags \in FragmentChoices(ret = "rules") :
                          task' = [task EXCEPT ![t] = Prepared(tk, frags)]
    /\ UNCHANGED <<queue, knowledge, createdAt, returnMarkdown>>
    /\ UNCHANGED <<splitVars, writeVars, preVars>>

\* Generate without the test of !markdown: an empty answer goes on to the store.
GenerateKeepingEmpty(t) ==
    /\ task[t].pc = "generate"
    /\ \/ task' = [task EXCEPT ![t] =
                      Finish(Logged(task[t], "ai", "raise"), SoftFail, returnMarkdown)]
       \/ task' = [task EXCEPT ![t] =
                      [Logged(task[t], "ai", "empty") EXCEPT !.pc = "store",
                                                             !.markdown = <<>>]]
       \/ task' = [task EXCEPT ![t] =
                      [Logged(task[t], "ai", "text") EXCEPT !.pc = "store",
                                                            !.markdown = MarkdownOf(t)]]
    /\ UNCHANGED <<queue, knowledge, createdAt, returnMarkdown>>
    /\ UNCHANGED <<splitVars, writeVars, preVars>>

\* generateMarkdown: await the model; run() then tests !markdown.
Generate(t) ==
    /\ task[t].pc = "generate"
    /\ \/ task' = [task EXCEPT ![t] =
                      Finish(Logged(task[t], "ai", "raise"), SoftFail, returnMarkdown)]
       \/ task' = [task EXCEPT ![t] =
                      Finish(Logged(task[t], "ai", "empty"), GenerationFailed, returnMarkdown)]
       \/ task' = [task EXCEPT ![t] =
                      [Logged(task[t], "ai", "text") EXCEPT !.pc = "store",
                                                            !.markdown = MarkdownOf(t)]]
    /\ UNCHANGED <<queue, knowledge, createdAt, returnMarkdown>>
    /\ UNCHANGED <<splitVars, writeVars, preVars>>

\* StoreMarkdown not awaited: run() goes on to the metadata update whether or
\* not the write has succeeded.
StoreMarkdownNotAwaited(t) ==
    /\ task[t].pc = "store"
    /\ \/ /\ task' = [task EXCEPT ![t] = [Logged(task[t], "put", "raise") EXCEPT !.pc = "update"]]
          /\ UNCHANGED knowledge
       \/ /\ task' = [task EXCEPT ![t] = [Logged(task[t], "put", "ok") EXCEPT !.pc = "update"]]
          /\ knowledge' = [knowledge EXCEPT ![task[t].writer.r2Key] = task[t].markdown]
    /\ UNCHANGED <<queue, createdAt, returnMarkdown>>
    /\ UNCHANGED <<splitVars, writeVars, preVars>>

\* StoreMarkdown that leaves an object already stored under the key alone.
StoreMarkdownKeepingFirst(t) ==
    /\ task[t].pc = "store"
    /\ \/ /\ task' = [task EXCEPT ![t] =
                         Finish(Logged(task[t], "put", "raise"), SoftFail, returnMarkdown)]
          /\ UNCHANGED knowledge
       \/ /\ task' = [task EXCEPT ![t] = [Logged(task[t], "put", "ok") EXCEPT !.pc = "update"]]
          /\ knowledge' = IF knowledge[task[t].writer.r2Key] = NoMarkdown
                          THEN [knowledge EXCEPT ![task[t].writer.r2Key] = task[t].markdown]
                          ELSE knowledge
    /\ UNCHANGED <<queue, createdAt, returnMarkdown>>
    /\ UNCHANGED <<splitVars, writeVars, preVars>>

\* run: await this.storeMarkdown(markdown)
StoreMarkdown(t) ==
    /\ task[t].pc = "store"
    /\ \/ /\ task' = [task EXCEPT ![t] =
                         Finish(Logged(task[t], "put", "raise"), SoftFail, returnMarkdown)]
          /\ UNCHANGED knowledge
       \/ /\ task' = [task EXCEPT ![t] = [Logged(task[t], "put", "ok") EXCEPT !.pc = "update"]]
          /\ knowledge' = [knowledge EXCEPT ![task[t].writer.r2Key] = task[t].markdown]
    /\ UNCHANGED <<queue, createdAt, returnMarkdown>>
    /\ UNCHANGED <<splitVars, writeVars, preVars>>

\* UpdatePageMetadata with a failed update removing the markdown stored before it.
UpdatePageMetadataUndoingStore(t) ==
    /\ task[t].pc = "update"
    /\ \/ /\ task' = [task EXCEPT ![t] =
                         Finish(Logged(task[t], "update", "raise"), SoftFail, returnMarkdown)]
          /\ knowledge' = [knowledge EXCEPT ![task[t].writer.r2Key] = NoMarkdown]
          /\ UNCHANGED createdAt
       \/ /\ task' = [task EXCEPT ![t] =
                         Finish(Logged(task[t], "update", "ok"), Success(task[t].markdown),
                                returnMarkdown)]
          /\ createdAt' = [createdAt EXCEPT ![task[t].writer.docId] = TRUE]
          /\ UNCHANGED knowledge
    /\ UNCHANGED <<queue, returnMarkdown>>
    /\ UNCHANGED <<splitVars, writeVars, preVars>>

\* run: await this.updatePageMetadata(), then the success result.
UpdatePageMetadata(t) ==
    /\ task[t].pc = "update"
    /\ \/ /\ task' = [task EXCEPT ![t] =
                         Finish(Logged(task[t], "update", "raise"), SoftFail, returnMarkdown)]
          /\ UNCHANGED createdAt
       \/ /\ task' = [task EXCEPT ![t] =
                         Finish(Logged(task[t], "update", "ok"), Success(task[t].markdown),
                                returnMarkdown)]
          /\ createdAt' = [createdAt EXCEPT ![task[t].writer.docId] = TRUE]
    /\ UNCHANGED <<queue, knowledge, returnMarkdown>>
    /\ UNCHANGED <<splitVars, writeVars, preVars>>

\* The messages of a finished queue handler that the queue delivers again: those
\* retried, and those left unsettled by a handler that threw.
Redelivered(tk) ==
    LET again(k) == \/ \E c \in 1..Len(tk.msgCalls[k]) : tk.msgCalls[k][c] = "retry"
                    \/ tk.pc = "crashed" /\ tk.msgCalls[k] = <<>>
        RECURSIVE From(_)
        From(k) == IF k > Len(tk.batch) THEN <<>>
                   ELSE (IF again(k) THEN <<tk.batch[k]>> ELSE <<>>) \o From(k + 1)
    IN  IF tk.kind = "queue" THEN From(1) ELSE <<>>

\* The handler has returned (or thrown); the invocation is over.
HandlerExit(t) ==
    /\ task[t].pc \in {"done", "crashed"}
    /\ task' = [task EXCEPT ![t] = IdleTask]
    /\ queue' = queue \o Redelivered(task[t])
    /\ UNCHANGED <<knowledge, createdAt, returnMarkdown>>
    /\ UNCHANGED <<splitVars, writeVars, preVars>>

SplitterOff ==
    /\ html = <<>>
    /\ maxChunkSize = 1
    /\ i = 0
    /\ scan = InitScan
    /\ spPc = "off"
    /\ seeded = 0
    /\ marks = <<>>

\* One handler invocation at a time: a request or a queue delivery.
Init ==
    /\ task = [t \in Tasks |-> IF t = "t1" THEN IdleTask ELSE [kind |-> "off", pc |-> "off"]]
    /\ queue = <<>>
    /\ knowledge = [k \in R2Keys |-> NoMarkdown]
    /\ createdAt = [d \in DocIds |-> FALSE]
    /\ returnMarkdown \in BOOLEAN
    /\ SplitterOff
    /\ WriteOff
    /\ PreOff

Next ==
    \E t \in Tasks :
        \/ FetchRequest(t)
        \/ QueueDeliver(t)
        \/ LoadPageMetadata(t)
        \/ GetHtml(t)
        \/ GetRules(t)
        \/ Generate(t)
        \/ StoreMarkdown(t)
        \/ UpdatePageMetadata(t)
        \/ HandlerExit(t)

Spec == Init /\ [][Next]_vars

\* ------------------------------------------------ worker: concurrent runs

\* The bodies of two POST requests handled at the same time.
RunBodies == [url : Urls]

\* Both requests have passed the gate of fetch, built their writer and entered
\* run(); the stores are as before either run.
RunsInit ==
    /\ \E body \in [Tasks -> RunBodies] :
          task = [t \in Tasks |-> StartRun(NewTask("fetch", <<body[t]>>), 1)]
    /\ queue = <<>>
    /\ knowledge = [k \in R2Keys |-> NoMarkdown]
    /\ createdAt = [d \in DocIds |-> FALSE]
    /\ returnMarkdown \in BOOLEAN
    /\ SplitterOff
    /\ WriteOff
    /\ PreOff

\* The runs interleave at their awaits.
RunsNext ==
    \E t \in Tasks :
        \/ LoadPageMetadata(t)
        \/ GetHtml(t)
        \/ GetRules(t)
        \/ Generate(t)
        \/ StoreMarkdown(t)
        \/ UpdatePageMetadata(t)

SpecRuns == RunsInit /\ [][RunsNext]_vars


\* ------------------------------------------------ properties of the worker

Handlers == {t \in Tasks : task[t].kind \in {"fetch", "queue"}}

QueueHandlers == {t \in Tasks : task[t].kind = "queue"}

\* The runs a handler still holds: the one in progress or last returned, and the one before.
RunsOf(t) == {task[t].run, task[t].finished}

\* The metadata lookup of run r returned no record.
MetadataAbsent(r) == r.calls # <<>> /\ r.calls[1] = [call |-> "meta", ret |-> "absent"]

\* C7: a maxChunkSize <= 0 from a request body or a queue message is rejected
\* before the splitter is entered: splitHtml never runs with maxChunkSize <= 0.
C7_SplitterNeverEnteredWithNonPositive ==
    \A t \in Handlers : \A r \in RunsOf(t) :
        \A k \in 1..Len(r.split) : r.split[k] >= 1

\* C8: in the queue consumer a message whose run returned success or hardfail is
\* acknowledged (ack called, retry not), and one whose run returned softfail
\* gets retry (ack not called).
C8_QueueSettlesByOutcome ==
    \A t \in QueueHandlers : \A k \in 1..Len(task[t].batch) :
        /\ task[t].statuses[k] \in {"success", "hardfail"} => task[t].msgCalls[k] = <<"ack">>
        /\ task[t].statuses[k] = "softfail" => task[t].msgCalls[k] = <<"retry">>

\* A batch of two whose first message succeeded and was acknowledged and whose
\* second softfailed and was retried.
C8_Witness ==
    \E t \in QueueHandlers :
        /\ Len(task[t].batch) = 2
        /\ task[t].statuses = <<"success", "softfail">>
        /\ task[t].msgCalls = << <<"ack">>, <<"retry">> >>

\* C9: for every message of a batch and any message body, the handling of the
\* message ends in exactly one of success, hardfail, softfail with exactly one of
\* ack() and retry() called on it; no exception leaves the handler with this or
\* a later message unsettled.
C9_EveryMessageSettledOnce ==
    \A t \in QueueHandlers :
        task[t].pc \in {"done", "crashed"} =>
            /\ task[t].pc = "done"
            /\ \A k \in 1..Len(task[t].batch) :
                  /\ task[t].statuses[k] \in {"success", "hardfail", "softfail"}
                  /\ Len(task[t].msgCalls[k]) = 1

\* C10: if the metadata lookup returns no record, run() returns hardfail with
\* code 404 and no markdown, and the lookup is the only external call of the run
\* (no raw-content read, rule-store read, generation call, storage write or
\* metadata update).
C10_MetadataAbsentIsHardfail ==
    \A t \in Handlers : \A r \in RunsOf(t) :
        MetadataAbsent(r) =>
            /\ r.result.status = "hardfail"
            /\ r.result.code = 404
            /\ "markdown" \notin DOMAIN r.result
            /\ Len(r.calls) = 1

\* A run whose metadata lookup found no record has returned.
C10_Witness ==
    \E t \in Handlers : MetadataAbsent(task[t].run) /\ task[t].run.result.status # "none"


\* The calls of run r that write: the storage write and the metadata update.
Writes(r) == {k \in 1..Len(r.calls) : r.calls[k].call \in {"put", "update"}}

\* C11: if the metadata record exists but the raw content object is absent,
\* run() returns hardfail with code 404, and the metadata lookup and the raw
\* content read are the only external calls of the run.
C11_HtmlAbsentIsHardfail ==
    \A t \in Handlers : \A r \in RunsOf(t) :
        (Len(r.calls) >= 2 /\ r.calls[2] = [call |-> "raw", ret |-> "absent"]) =>
            /\ r.calls[1] = [call |-> "meta", ret |-> "row"]
            /\ Len(r.calls) = 2
            /\ r.result.status = "hardfail"
            /\ r.result.code = 404
            /\ "markdown" \notin DOMAIN r.result

\* A run that found the metadata record and no raw content has returned.
C11_Witness ==
    \E t \in Handlers :
        /\ task[t].run.calls = <<[call |-> "meta", ret |-> "row"], [call |-> "raw", ret |-> "absent"]>>
        /\ task[t].run.result.status # "none"

\* C12: if the generation step returns an empty markdown, run() returns
\* hardfail with code 500, the generation call is the last call of the run, and
\* neither the storage write nor the metadata update is made.
C12_EmptyMarkdownIsHardfail ==
    \A t \in Handlers : \A r \in RunsOf(t) :
        \A k \in 1..Len(r.calls) :
            r.calls[k] = [call |-> "ai", ret |-> "empty"] =>
                /\ k = Len(r.calls)
                /\ Writes(r) = {}
                /\ r.result.status = "hardfail"
                /\ r.result.code = 500

\* A run whose generation call answered with an empty markdown has returned.
C12_Witness ==
    \E t \in Handlers :
        /\ task[t].run.calls # <<>>
        /\ task[t].run.calls[Len(task[t].run.calls)] = [call |-> "ai", ret |-> "empty"]
        /\ task[t].run.result.status # "none"

\* C13: if an external call of a run raises, or the HTML preprocessing raises,
\* run() does not raise: it returns softfail with code 500, and the failing
\* step is the last step of the run (no storage write after a generation
\* failure). A handler that ends by an exception has not entered run().
C13_RaiseIsSoftfail ==
    \A t \in Handlers :
        /\ task[t].pc = "crashed" => task[t].run.calls = <<>>
        /\ \A r \in RunsOf(t) : \A k \in 1..Len(r.calls) :
              r.calls[k].ret = "raise" =>
                  /\ k = Len(r.calls)
                  /\ r.result.status = "softfail"
                  /\ r.result.code = 500
                  /\ "markdown" \notin DOMAIN r.result

\* A run whose generation call raised has returned, and so has one whose
\* preprocessing raised.
C13_Witness ==
    \E t \in Handlers :
        /\ task[t].run.calls # <<>>
        /\ task[t].run.calls[Len(task[t].run.calls)] = [call |-> "ai", ret |-> "raise"]
        /\ task[t].finished.calls # <<>>
        /\ task[t].finished.calls[Len(task[t].finished.calls)] = [call |-> "preprocess", ret |-> "raise"]
        /\ task[t].run.result.status = "softfail"


\* The run that handler record tk returned last.
Returned(tk) == IF tk.run.result.status # "none" THEN tk.run ELSE tk.finished

LastCall(r) == r.calls[Len(r.calls)]

\* The calls of r end with a storage write that succeeded and a metadata update that raised.
StoredThenUpdateRaised(r) ==
    /\ Len(r.calls) >= 2
    /\ r.calls[Len(r.calls) - 1] = [call |-> "put", ret |-> "ok"]
    /\ LastCall(r) = [call |-> "update", ret |-> "raise"]

\* C14: when the metadata update of a run returns or raises, the markdown of
\* the run is stored under its key; if the update raised, the outcome is
\* softfail and no timestamp changes; if it succeeded, the outcome is success
\* and the timestamp of the run's row is set, whatever an earlier failed
\* attempt left behind (one object under the key, timestamp set).
C14_UpdateFailureKeepsMarkdown ==
    [][\A t \in Tasks :
          (task[t].pc = "update" /\ task'[t].pc # "update") =>
              /\ knowledge' = knowledge
              /\ knowledge'[task[t].writer.r2Key] = task[t].markdown
              /\ IF LastCall(Returned(task'[t])).ret = "raise"
                 THEN /\ Returned(task'[t]).result.status = "softfail"
                      /\ createdAt' = createdAt
                 ELSE /\ Returned(task'[t]).result.status = "success"
                      /\ createdAt' = [createdAt EXCEPT ![task[t].writer.docId] = TRUE]]_vars

\* A job whose first run stored the markdown and failed on the metadata update
\* has been run again with success: the key holds the markdown of the second
\* run and the timestamp is set.
C14_Witness ==
    \E t \in QueueHandlers :
        /\ task[t].idx = 2
        /\ task[t].batch[1].url = task[t].batch[2].url
        /\ StoredThenUpdateRaised(task[t].finished)
        /\ task[t].finished.result.status = "softfail"
        /\ task[t].run.result.status = "success"
        /\ knowledge[R2KeyOf(task[t].batch[2].url)] = task[t].run.result.markdown
        /\ createdAt[DocIdOf(task[t].batch[2].url)]


\* The handlers of a POST whose run() has returned and that have answered.
AnsweredPosts == {t \in Handlers : task[t].kind = "fetch" /\ task[t].pc = "done" /\ task[t].batch # <<>>}

\* C15: the HTTP status of the response to a POST is the code of the run
\* outcome: 200 exactly when the outcome is success, 404 when the metadata or
\* the raw content was not found, 500 for every other failure; the response
\* carries the markdown only when the outcome is success and RETURN_MARKDOWN
\* is "true".
C15_PostStatusMirrorsOutcome ==
    \A t \in AnsweredPosts :
        LET result == task[t].run.result
            response == task[t].response
        IN  /\ response.status = result.status
            /\ response.code = 200 <=> result.status = "success"
            /\ response.code = 404 <=> result \in {MetadataNotFound, HtmlNotFound}
            /\ response.code = 500 <=>
                  (result.status # "success" /\ result \notin {MetadataNotFound, HtmlNotFound})
            /\ "markdown" \in DOMAIN response <=> (result.status = "success" /\ returnMarkdown)
            /\ "markdown" \in DOMAIN response => response.markdown = result.markdown

\* A POST answered 200 with the markdown inline.
C15_Witness ==
    \E t \in AnsweredPosts :
        /\ task[t].run.result.status = "success"
        /\ task[t].response.code = 200
        /\ "markdown" \in DOMAIN task[t].response

\* The writer of handler record tk is the one the switch on body.model builds
\* for the body it is at, for a POST and for a queue message alike.
WriterAsPost(tk) ==
    tk.writer # NoWriter =>
        LET body == tk.batch[tk.idx]
        IN  /\ tk.writer.url = body.url
            /\ tk.writer.model =
                  IF "model" \in DOMAIN body /\ body.model = GEMINI_2_FLASH
                  THEN GEMINI_2_FLASH ELSE LLAMA
            /\ tk.writer.model = LLAMA =>
                  tk.writer.maxChunkSize =
                      IF "maxChunkSize" \in DOMAIN body THEN body.maxChunkSize
                      ELSE DEFAULT_MAX_CHUNK_SIZE

\* C16: a PUT answered 202 has put its body on the queue exactly once, a PUT
\* answered 500 has left the queue alone, and neither has made a metadata,
\* storage, rule-store or model call or built a writer; the queue consumer
\* builds the writer for a body and starts run() as a POST does.
C16_PutEnqueuesOnce ==
    [][\A t \in Tasks :
          /\ (/\ task[t].pc = "idle"
              /\ task'[t].kind = "fetch"
              /\ task'[t].pc = "done"
              /\ task'[t].batch = <<>>
              /\ task'[t].response.code \in {202, 500}) =>
                 /\ task'[t].run = NewRun
                 /\ task'[t].writer = NoWriter
                 /\ knowledge' = knowledge
                 /\ createdAt' = createdAt
                 /\ IF task'[t].response.code = 202
                    THEN queue' = Append(queue, task'[t].response.request)
                    ELSE queue' = queue
          /\ (task[t].pc = "idle" /\ task'[t].kind \in {"fetch", "queue"}) =>
                 /\ WriterAsPost(task'[t])
                 /\ task'[t].writer # NoWriter =>
                       task'[t].pc = "loadMeta" /\ task'[t].run = NewRun]_vars

\* The queue consumer runs a body that a PUT has put on the queue.
C16_Witness ==
    \E t \in QueueHandlers :
        /\ task[t].writer # NoWriter
        /\ task[t].run.calls # <<>>


\* ------------------------------------------ properties of concurrent runs

\* Run r has made a call named name that returned.
Made(r, name) == \E k \in 1..Len(r.calls) : r.calls[k] = [call |-> name, ret |-> "ok"]

\* Handler t has taken the step of its storage write, and the write succeeded.
Wrote(t) == task[t].pc = "store" /\ task'[t].pc = "update"

\* C17: runs for the same url write to the same storage key; every storage
\* write that succeeds replaces what the key held by the markdown of the run
\* that makes it, and nothing else changes the store, so after both runs the
\* key holds the markdown of the write that executed last; both runs may
\* report success.
C17_LastWriteWins ==
    [][/\ \A t \in Tasks :
             Wrote(t) =>
                 /\ task[t].writer.r2Key = R2KeyOf(task[t].writer.url)
                 /\ knowledge' = [knowledge EXCEPT ![task[t].writer.r2Key] = task[t].markdown]
       /\ knowledge' # knowledge => \E t \in Tasks : Wrote(t)]_vars

\* Two runs for the same url have both reported success, and the key holds the
\* markdown of the first handler: the second handler's write was overwritten.
C17_Witness ==
    /\ task["t1"].writer.url = task["t2"].writer.url
    /\ \A t \in Tasks : task[t].pc = "done" /\ task[t].run.result.status = "success"
    /\ knowledge[task["t1"].writer.r2Key] = MarkdownOf("t1")

\* C18: for runs of different urls (rows with different keys), the markdown
\* under a url's key and the timestamp of its row depend on the steps of that
\* url's run only, under every interleaving: the object is the run's markdown
\* exactly when its storage write has succeeded, the timestamp is set exactly
\* when its metadata update has succeeded, and the run reports success exactly
\* then. That is the state the runs leave when run one after the other.
C18_RunsIndependent ==
    task["t1"].writer.url # task["t2"].writer.url =>
        \A t \in Tasks :
            /\ knowledge[R2KeyOf(task[t].writer.url)] =
                  IF Made(task[t].run, "put") THEN MarkdownOf(t) ELSE NoMarkdown
            /\ createdAt[DocIdOf(task[t].writer.url)] = Made(task[t].run, "update")
            /\ task[t].run.result.status = "success" <=> Made(task[t].run, "update")

\* Two runs of different urls have finished, one with success and one that
\* failed after the other had written.
C18_Witness ==
    /\ task["t1"].writer.url # task["t2"].writer.url
    /\ \A t \in Tasks : task[t].pc = "done"
    /\ task["t1"].run.result.status = "success"
    /\ task["t2"].run.result.status = "softfail"
    /\ Made(task["t2"].run, "put")


\* ------------------------------- writeMarkdown and generateMarkdown (Llama)

\* Most fragments preprocessHTML returns.
MaxFragments == 2

\* Fragment texts of every length from 0 to MaxChunk + 1.
FragmentTexts ==
    {<<>>, <<"a">>, <<"a", "b">>, <<"a", " ", "b">>, <<"<", "a", ">", "b">>,
     <<"a", "b", " ", "a", "b">>}

RECURSIVE FragmentLists(_)
FragmentLists(n) ==
    IF n = 0 THEN {<<>>}
    ELSE LET shorter == FragmentLists(n - 1)
         IN  shorter \cup {Append(l, f) : l \in {m \in shorter : Len(m) = n - 1},
                                          f \in FragmentTexts}

Titles == {<<>>, <<"T">>}

\* body.additionalPrompt || ""
Prompts == {<<>>, <<"p">>}

SystemInstruction == "You are a helpful assistant that can read HTML. [...] The page title is \""

FinalInstruction ==
    "Generate a markdown output, in the HTML content original language language, using all available HTML chunks. "

\* The callback of chunks.map with index + 2 in the label.
ChunkMessageOffByOne(chunk, index) ==
    [role |-> "user", content |-> <<"HTML Chunk ", ToString(index + 2), ": ">> \o chunk]

\* (chunk, index) => ({ role: "user", content: `HTML Chunk ${index + 1}: ${chunk}` })
ChunkMessage(chunk, index) ==
    [role |-> "user", content |-> <<"HTML Chunk ", ToString(index + 1), ": ">> \o chunk]

\* chunks.map(...), index from 0.
RECURSIVE ChunkMessagesFrom(_, _)
ChunkMessagesFrom(chunks, index) ==
    IF index >= Len(chunks) THEN <<>>
    ELSE <<ChunkMessage(chunks[index + 1], index)>> \o ChunkMessagesFrom(chunks, index + 1)

\* const messages = [system, ...chunks.map(...), user]
Messages(title, chunks, additionalPrompt) ==
    <<[role |-> "system", content |-> <<SystemInstruction>> \o title \o <<"\".">>]>>
        \o ChunkMessagesFrom(chunks, 0)
        \o <<[role |-> "user", content |-> <<FinalInstruction>> \o additionalPrompt]>>

\* writeMarkdown is entered with the fragments preprocessHTML returned.
WriteInit ==
    /\ \E frags \in FragmentLists(MaxFragments), title \in Titles, prompt \in Prompts :
          write = [pc |-> "chunks", processedHtml |-> frags, title |-> title,
                   additionalPrompt |-> prompt, chunks |-> <<>>, splits |-> <<>>,
                   messages |-> <<>>]
    /\ maxChunkSize \in SplitSizes
    /\ html = <<>>
    /\ i = 0
    /\ scan = InitScan
    /\ spPc = "off"
    /\ seeded = 0
    /\ marks = <<>>
    /\ WorkerOff
    /\ PreOff

\* writeMarkdown: the chunks; splits holds the argument of each splitHtml call.
WriteChunks ==
    /\ write.pc = "chunks"
    /\ write' = [write EXCEPT
                    !.pc = "messages",
                    !.chunks = ChunksFor(write.processedHtml, maxChunkSize),
                    !.splits = IF NeedsSplit(write.processedHtml, maxChunkSize)
                               THEN <<Join(write.processedHtml)>> ELSE <<>>]
    /\ UNCHANGED <<splitVars, workerVars, preVars>>

\* generateMarkdown: the messages handed to env.AI.run.
WriteMessages ==
    /\ write.pc = "messages"
    /\ write' = [write EXCEPT
                    !.pc = "sent",
                    !.messages = Messages(write.title, write.chunks, write.additionalPrompt)]
    /\ UNCHANGED <<splitVars, workerVars, preVars>>

WriteNext == WriteChunks \/ WriteMessages

SpecWrite == WriteInit /\ [][WriteNext]_vars

\* C19: in writeMarkdown of the Llama variant, if some fragment is longer than
\* maxChunkSize the chunks are the result of one splitHtml call on the fragments
\* joined with a blank line; otherwise splitHtml is not called and the chunks
\* are the fragments, in order and unmodified.
C19_SplitOnlyWhenFragmentTooLong ==
    write.pc \in {"messages", "sent"} =>
        IF \E k \in 1..Len(write.processedHtml) : Len(write.processedHtml[k]) > maxChunkSize
        THEN /\ Len(write.splits) = 1
             /\ Len(write.processedHtml) = 2 =>
                   write.splits[1] =
                       write.processedHtml[1] \o <<"\n", "\n">> \o write.processedHtml[2]
             /\ Len(write.processedHtml) = 1 => write.splits[1] = write.processedHtml[1]
             /\ write.chunks = SplitHtml(write.splits[1], maxChunkSize)
        ELSE /\ write.splits = <<>>
             /\ write.chunks = write.processedHtml

\* Two fragments, the second too long, were joined and split in one call.
C19_Witness ==
    /\ write.pc = "messages"
    /\ Len(write.processedHtml) = 2
    /\ Len(write.processedHtml[1]) <= maxChunkSize
    /\ Len(write.processedHtml[2]) > maxChunkSize
    /\ maxChunkSize >= 1
    /\ Len(write.splits) = 1

\* C20: for N chunks the prompt has N + 2 messages: one system message
\* embedding the title, one user message per chunk labelled with its 1-based
\* position, in the order of the chunks and with equal chunks kept, and one
\* trailing user message that ends with the additional instruction verbatim.
C20_PromptShape ==
    write.pc = "sent" =>
        LET m == write.messages
            n == Len(write.chunks)
            last == m[n + 2].content
        IN  /\ Len(m) = n + 2
            /\ m[1].role = "system"
            /\ SubSeq(m[1].content, 2, 1 + Len(write.title)) = write.title
            /\ \A k \in 1..n :
                  /\ m[k + 1].role = "user"
                  /\ m[k + 1].content = <<"HTML Chunk ", ToString(k), ": ">> \o write.chunks[k]
            /\ m[n + 2].role = "user"
            /\ Len(last) >= Len(write.additionalPrompt)
            /\ SubSeq(last, Len(last) - Len(write.additionalPrompt) + 1, Len(last))
                  = write.additionalPrompt

\* A prompt built from two equal chunks and a non-empty additional instruction.
C20_Witness ==
    /\ write.pc = "sent"
    /\ Len(write.chunks) = 2
    /\ write.chunks[1] = write.chunks[2]
    /\ write.chunks[1] # <<>>
    /\ write.additionalPrompt # <<>>
    /\ Len(write.messages) = 4


\* ------------------------------------------------ preprocessHTML (Llama)

\* Most rules in the rule list of a domain.
MaxRules == 2

\* The elements a document may hold below <body>, numbered in document order:
\* element 2 is a child of element 1; elements 1 and 3 are children of <body>.
ParentOf == <<0, 1, 0>>

Elements == DOMAIN ParentOf

RECURSIVE IsDescendant(_, _)
IsDescendant(m, n) ==
    ParentOf[m] # 0 /\ (ParentOf[m] = n \/ IsDescendant(ParentOf[m], n))

\* An element: its tag, one attribute ("style" for a style attribute, "data"
\* for src="data:..."), and whether it is in the tree.
ElementChoices(n) ==
    LET present ==
          IF n = 1 THEN [tag : {"div", "p"}, attr : {"none", "style"}, live : {TRUE}]
          ELSE IF n = 2
          THEN [tag : {"p", "img"}, attr : {"none", "style"}, live : {TRUE}]
                  \cup {[tag |-> "img", attr |-> "data", live |-> TRUE],
                        [tag |-> "script", attr |-> "none", live |-> TRUE],
                        [tag |-> "style", attr |-> "none", live |-> TRUE]}
          ELSE [tag : {"div"}, attr : {"none", "style"}, live : {TRUE}]
                  \cup {[tag |-> "script", attr |-> "none", live |-> TRUE]}
    IN  present \cup {[tag |-> "div", attr |-> "none", live |-> FALSE]}

\* The documents cheerio.load(html) may build: a child is in the tree only with its parent.
Documents ==
    {d \in {<<a, b, c>> : a \in ElementChoices(1), b \in ElementChoices(2),
                          c \in ElementChoices(3)} :
        \A n \in Elements : (d[n].live /\ ParentOf[n] # 0) => d[ParentOf[n]].live}

\* $(selector) for a tag selector: the elements in the tree with that tag.
Select(doc, selector) == {n \in Elements : doc[n].live /\ doc[n].tag = selector}

\* A string that is not a selector: $(selector) throws.
SelectorThrows(selector) == selector = "bad"

\* .remove(): the elements of S leave the tree with their descendants.
Removed(doc, S) ==
    [n \in Elements |->
        IF n \in S \/ \E m \in S : IsDescendant(n, m)
        THEN [doc[n] EXCEPT !.live = FALSE] ELSE doc[n]]

\* $('script').remove(); $('style').remove(); $('img[src^="data:"]').removeAttr('src')
CleanUp(doc) ==
    LET noScript == Removed(doc, Select(doc, "script"))
        noStyle == Removed(noScript, Select(noScript, "style"))
    IN  [n \in Elements |->
            IF noStyle[n].live /\ noStyle[n].tag = "img" /\ noStyle[n].attr = "data"
            THEN [noStyle[n] EXCEPT !.attr = "none"] ELSE noStyle[n]]

\* .html() of element n: the elements below it, in document order, from element k on.
RECURSIVE InnerHtml(_, _, _)
InnerHtml(doc, n, k) ==
    IF k > Len(doc) THEN <<>>
    ELSE (IF doc[k].live /\ IsDescendant(k, n)
          THEN <<[node |-> k, tag |-> doc[k].tag, attr |-> doc[k].attr]>> ELSE <<>>)
             \o InnerHtml(doc, n, k + 1)

\* The first element of a selection.
First(S) == CHOOSE n \in S : \A m \in S : n <= m

\* PreprocessHTMLRules: exclude is optional.
Rules ==
    [type : {"css"}, selector : {"div", "p", "bad"}]
        \cup [type : {"css"}, selector : {"div", "p", "bad"}, exclude : {"p"}]
        \cup [type : {"xpath"}, selector : {"div"}]

RECURSIVE RuleLists(_)
RuleLists(n) ==
    IF n = 0 THEN {<<>>}
    ELSE LET shorter == RuleLists(n - 1)
         IN  shorter \cup {Append(l, r) : l \in {m \in shorter : Len(m) = n - 1}, r \in Rules}

\* rule.exclude || ""
ExcludeOf(rule) == IF "exclude" \in DOMAIN rule THEN rule.exclude ELSE ""

\* An empty body without its text fragment.
BodyTextOrNothing(doc) ==
    IF \A n \in Elements : ~doc[n].live THEN <<>> ELSE <<[kind |-> "text", elements |-> <<>>]>>

\* processedHtml: [$('body').text()]: one fragment, text only.
BodyText(doc) == <<[kind |-> "text", elements |-> <<>>]>>

\* selectedDOM.find(excSelector) without the remove().
ExcludedNothing(doc, selected, excSelector) == doc

\* selectedDOM.find(excSelector).remove()
Excluded(doc, selected, excSelector) ==
    Removed(doc, {m \in Select(doc, excSelector) : \E n \in selected : IsDescendant(m, n)})

\* A rule that contributes nothing, with an empty fragment pushed for it.
PassedPushingEmpty(p) ==
    [p EXCEPT !.idx = @ + 1, !.selected = Append(@, {}),
              !.processedHtml = Append(@, [kind |-> "html", rule |-> p.idx + 1,
                                           elements |-> <<>>])]

\* A rule of another type, or a selection that is empty: the loop goes on.
Passed(p) == [p EXCEPT !.idx = @ + 1, !.selected = Append(@, {})]

\* The catch of the loop body leaving the loop.
SkippedAborting(p) == [p EXCEPT !.pc = "raised"]

\* catch (e) { continue }
Skipped(p) == [p EXCEPT !.idx = @ + 1, !.selected = Append(@, {})]

\* One iteration of for (const rule of rules); the fragment records the
\* position of its rule, and selected what $(selector) returned.
ProcessRule(p, rule) ==
    IF rule.type # "css" THEN Passed(p)
    ELSE IF SelectorThrows(rule.selector) THEN Skipped(p)
    ELSE LET selectedDOM == Select(p.doc, rule.selector)
             after == IF ExcludeOf(rule) # ""
                      THEN Excluded(p.doc, selectedDOM, ExcludeOf(rule)) ELSE p.doc
         IN  IF selectedDOM = {} THEN Passed(p)
             ELSE [p EXCEPT !.doc = after,
                            !.idx = @ + 1,
                            !.selected = Append(@, selectedDOM),
                            !.processedHtml =
                                Append(@, [kind |-> "html", rule |-> p.idx + 1,
                                           elements |-> InnerHtml(after, First(selectedDOM), 1)])]

\* A call that goes on with the tree the call before it left.
LoadedKeepingTree(p) == p.doc

\* const $ = cheerio.load(html): the tree is built from the string at each call.
Loaded(p) == p.html

\* const title = $('title').text()
TitleOf(p) == p.htmlTitle

\* preprocessHTML is entered with the html, parsed, and the rules.
PreInit ==
    /\ \E d \in Documents, t \in Titles, rules \in RuleLists(MaxRules) :
          pre = [pc |-> "clean", html |-> d, htmlTitle |-> t, doc |-> d, rules |-> rules,
                 idx |-> 0, title |-> t, processedHtml |-> <<>>, selected |-> <<>>,
                 call |-> 1, earlier |-> <<>>]
    /\ WorkerOff
    /\ SplitterOff
    /\ WriteOff

\* The cleanup, then the return of the body text if there are no rules.
PreClean ==
    /\ pre.pc = "clean"
    /\ pre' = IF pre.rules = <<>>
              THEN [pre EXCEPT !.pc = "done", !.doc = CleanUp(pre.doc),
                               !.processedHtml = BodyText(CleanUp(pre.doc))]
              ELSE [pre EXCEPT !.pc = "rules", !.doc = CleanUp(pre.doc)]
    /\ UNCHANGED <<splitVars, workerVars, writeVars>>

PreRule ==
    /\ pre.pc = "rules"
    /\ pre.idx < Len(pre.rules)
    /\ pre' = ProcessRule(pre, pre.rules[pre.idx + 1])
    /\ UNCHANGED <<splitVars, workerVars, writeVars>>

\* return { title, processedHtml }
PreReturn ==
    /\ pre.pc = "rules"
    /\ pre.idx = Len(pre.rules)
    /\ pre' = [pre EXCEPT !.pc = "done"]
    /\ UNCHANGED <<splitVars, workerVars, writeVars>>

\* preprocessHTML is called again with the same html and the same rules; what
\* the call before it returned is kept for comparison.
PreAgain ==
    /\ pre.pc = "done"
    /\ pre.call = 1
    /\ pre' = [pre EXCEPT !.pc = "clean", !.doc = Loaded(pre), !.idx = 0,
                          !.title = TitleOf(pre), !.processedHtml = <<>>,
                          !.selected = <<>>, !.call = 2,
                          !.earlier = <<[title |-> pre.title,
                                         processedHtml |-> pre.processedHtml]>>]
    /\ UNCHANGED <<splitVars, workerVars, writeVars>>

PreNext == PreClean \/ PreRule \/ PreReturn \/ PreAgain

SpecPre == PreInit /\ [][PreNext]_vars


\* ------------------------------------------------ splitHtml on tag tokens

MaxTokens == 3

\* Opening tags, closing tags, a self-closing tag, a word character and a space.
Tokens ==
    {<<"<", "a", ">">>, <<"<", "b", ">">>, <<"<", "/", "a", ">">>, <<"<", "/", "b", ">">>,
     <<"<", "b", "/", ">">>, <<"a">>, <<" ">>}

RECURSIVE TokenStrings(_)
TokenStrings(n) ==
    IF n = 0 THEN {<<>>}
    ELSE LET shorter == TokenStrings(n - 1)
         IN  shorter \cup {s \o tok : s \in shorter, tok \in Tokens}

\* splitHtml entered with markup: a sequence of whole tags, characters and spaces.
TagsInit ==
    /\ html \in TokenStrings(MaxTokens)
    /\ maxChunkSize \in SplitSizes
    /\ i = 0
    /\ scan = InitScan
    /\ spPc = "scan"
    /\ seeded = 0
    /\ marks = <<>>
    /\ WorkerOff
    /\ WriteOff
    /\ PreOff

SpecTags == TagsInit /\ [][SplitNext]_vars

\* The end of an input: nothing more, or a last tag that is never terminated.
Tails == {<<>>, <<"<", "a">>}

\* splitHtml entered with markup that may end in an unterminated tag.
TermInit ==
    /\ html \in {s \o tail : s \in TokenStrings(MaxTokens), tail \in Tails}
    /\ maxChunkSize \in SplitSizes
    /\ i = 0
    /\ scan = InitScan
    /\ spPc = "scan"
    /\ seeded = 0
    /\ marks = <<>>
    /\ WorkerOff
    /\ WriteOff
    /\ PreOff

\* The for loop and the return after it are steps of one synchronous call: once
\* entered, splitHtml keeps taking its next step.
SpecTerm == TermInit /\ [][SplitNext]_vars /\ WF_vars(SplitNext)

\* --------------------------------------- properties of splitHtml (2)

\* The element a closing tag </name ...> names.
ClosingName(tagContent) ==
    LET stop == {k \in 3..Len(tagContent) : tagContent[k] = " " \/ tagContent[k] = ">"}
        last == IF stop = {} THEN Len(tagContent)
                ELSE (CHOOSE k \in stop : \A m \in stop : k <= m) - 1
    IN  IF last >= 3 THEN SubSeq(tagContent, 3, last) ELSE <<>>

\* The tag token that the character about to be read completes, if it does.
TagEnding == IF i < Len(html) THEN Append(scan.tagContent, html[i + 1]) ELSE <<>>

\* The loop is about to read the ">" that ends a tag token.
AtTagEnd == spPc = "scan" /\ i < Len(html) /\ scan.inTag /\ html[i + 1] = ">"

\* C27: while splitHtml scans, a closing tag </name> removes from the stack of
\* open tags the entry named name and never an entry of another element, a
\* self-closing tag pushes nothing, and any other opening tag pushes its name.
C27_ClosingTagRemovesItsElement ==
    [][AtTagEnd =>
          IF IsClosingTag(TagEnding)
          THEN scan'.tagStack # scan.tagStack =>
                  /\ scan'.tagStack = Pop(scan.tagStack)
                  /\ scan.tagStack[Len(scan.tagStack)] = ClosingName(TagEnding)
          ELSE IF IsSelfClosing(TagEnding)
          THEN scan'.tagStack = scan.tagStack
          ELSE scan'.tagStack = PushIfNamed(scan.tagStack, TagEnding)]_vars

\* The loop's last step pushed a chunk.
Pushed == Len(scan'.chunks) = Len(scan.chunks) + 1

\* C29: at the end of the input the accumulator is pushed as the last chunk
\* exactly when it is not empty, as it is, with no closing tag appended even if
\* elements are open; every chunk pushed before it, by a split, ends with the
\* closing tags of the whole stack of open tags.
C29_LastChunkNotClosed ==
    [][/\ (spPc = "scan" /\ spPc' = "done") =>
             /\ scan.currentChunk # <<>> => scan'.chunks = Append(scan.chunks, scan.currentChunk)
             /\ scan.currentChunk = <<>> => scan'.chunks = scan.chunks
       /\ (spPc = "scan" /\ spPc' = "scan") =>
             \/ scan'.chunks = scan.chunks
             \/ /\ Pushed
                /\ scan'.chunks[Len(scan'.chunks)] =
                      Slice(scan'.splitAcc, 0, scan'.splitIndex) \o ClosingTags(scan.tagStack)
                /\ scan'.tagStack = scan.tagStack]_vars

\* splitHtml has returned with an element still open: a split chunk that was
\* closed, and a last chunk that is the accumulator as it was.
C29_Witness ==
    /\ spPc = "done"
    /\ maxChunkSize >= 1
    /\ scan.tagStack # <<>>
    /\ Len(scan.chunks) >= 2
    /\ marks[1].close > 0
    /\ marks[Len(marks)].close = 0
    /\ LastChunk = scan.currentChunk

\* C30: every chunk returned by splitHtml is a non-empty string, for any input
\* and any maxChunkSize >= 1.
C30_NoEmptyChunk ==
    maxChunkSize >= 1 => \A k \in 1..Len(scan.chunks) : scan.chunks[k] # <<>>

\* The characters among the first n of s that are outside every tag token.
NonTagChars(s, n) == {k \in 1..n : ~InsideTagToken(s, k)}

\* C31: splitHtml terminates for every input and every maxChunkSize, values
\* <= 0 included: it returns, having read each character of the input exactly
\* once, with at most one chunk per character outside the tags and one final
\* chunk.
C31_SplitHtmlTerminates ==
    /\ [](/\ i <= Len(html)
          /\ spPc = "done" => i = Len(html)
          /\ Len(scan.chunks) <=
                Cardinality(NonTagChars(html, i)) + (IF spPc = "done" THEN 1 ELSE 0))
    /\ [][\/ spPc = "scan" /\ spPc' = "scan" /\ i' = i + 1
          \/ spPc = "scan" /\ spPc' = "done" /\ i' = i /\ i = Len(html)]_vars
    /\ <>(spPc = "done")

\* splitHtml has returned for a maxChunkSize <= 0 and an input with a stray
\* closing tag and an unterminated last tag, with a chunk for every character
\* outside the tags.
C31_Witness ==
    /\ spPc = "done"
    /\ maxChunkSize <= 0
    /\ i = Len(html)
    /\ Len(html) >= 4
    /\ SubSeq(html, 1, 4) = <<"<", "/", "b", ">">>
    /\ scan.inTag
    /\ Len(scan.chunks) = Cardinality(NonTagChars(html, i))
    /\ Len(scan.chunks) >= 2

\* --------------------------------------- properties of the worker (2)

\* Run r made the external call name.
Called(r, name) == \E k \in 1..Len(r.calls) : r.calls[k].call = name

\* C26: when preprocessHTML returns no fragment the run treats the page as
\* having no usable content: the model is not invoked with zero chunks, no
\* markdown is stored, and the run does not report success.
C26_EmptyFragmentsNotGenerated ==
    \A t \in Handlers : \A r \in RunsOf(t) :
        r.fragments = <<0>> =>
            /\ ~Called(r, "ai")
            /\ ~Called(r, "put")
            /\ r.result.status # "success"

\* The place of an external call in run(): metadata lookup, raw content read,
\* rule-store read, (preprocessing,) generation, markdown write, metadata update.
StepRank(name) ==
    CASE name = "meta" -> 1
      [] name = "raw" -> 2
      [] name = "kv" -> 3
      [] name = "preprocess" -> 4
      [] name = "ai" -> 5
      [] name = "put" -> 6
      [] name = "update" -> 7

\* What a call must have returned for run() to go on to a later call.
WentOn(c) ==
    \/ c.call = "meta" /\ c.ret = "row"
    \/ c.call = "raw" /\ c.ret = "text"
    \/ c.call = "kv" /\ c.ret \in {"absent", "rules"}
    \/ c.call = "ai" /\ c.ret = "text"
    \/ c.call = "put" /\ c.ret = "ok"

\* C28: within one run the external calls are made one after the other in the
\* order metadata lookup, raw content read, rule-store read, generation,
\* markdown write, metadata update, each only after the one before it has
\* returned; the update directly follows a markdown write that succeeded, and
\* success is returned only after the write and the update have both succeeded.
C28_StepsInOrder ==
    \A t \in Handlers : \A r \in RunsOf(t) :
        /\ \A k \in 1..Len(r.calls) :
              /\ k = 1 => r.calls[k].call = "meta"
              /\ k > 1 => /\ WentOn(r.calls[k - 1])
                          /\ StepRank(r.calls[k - 1].call) < StepRank(r.calls[k].call)
              /\ r.calls[k].call = "put" => k > 1 /\ r.calls[k - 1].call = "ai"
              /\ r.calls[k].call = "update" =>
                    k > 1 /\ r.calls[k - 1] = [call |-> "put", ret |-> "ok"]
        /\ r.result.status = "success" =>
              /\ Len(r.calls) >= 2
              /\ r.calls[Len(r.calls) - 1] = [call |-> "put", ret |-> "ok"]
              /\ LastCall(r) = [call |-> "update", ret |-> "ok"]

\* A run of the Llama variant that made all six calls and returned success.
C28_Witness ==
    \E t \in Handlers :
        /\ task[t].run.result.status = "success"
        /\ Len(task[t].run.calls) = 6
        /\ task[t].run.calls[3].call = "kv"

\* The raw content read of run r returned what ret stands for.
RawReturned(r, ret) == Len(r.calls) >= 2 /\ r.calls[2] = [call |-> "raw", ret |-> ret]

\* C32: a raw content object that exists but is empty is classified like an
\* absent one: run() returns the same hardfail with code 404, the raw content
\* read is the last call of the run, and no generation, storage write or
\* metadata update is made.
C32_EmptyHtmlIsHardfail ==
    \A t \in Handlers : \A r \in RunsOf(t) :
        RawReturned(r, "empty") =>
            /\ r.calls[1] = [call |-> "meta", ret |-> "row"]
            /\ Len(r.calls) = 2
            /\ ~Called(r, "ai")
            /\ Writes(r) = {}
            /\ r.result = HtmlNotFound
            /\ r.result.status = "hardfail"
            /\ r.result.code = 404

\* A run that read an empty raw content object has returned, after a run of the
\* same handler that found no object and returned the same result.
C32_Witness ==
    \E t \in Handlers :
        /\ RawReturned(task[t].run, "empty")
        /\ task[t].run.result.status # "none"
        /\ RawReturned(task[t].finished, "absent")
        /\ task[t].finished.result = task[t].run.result

\* Handler record tk is a fetch that answered 401, 405 or 400.
Rejected(tk) ==
    /\ tk.kind = "fetch"
    /\ tk.pc = "done"
    /\ tk.batch = <<>>
    /\ tk.response.code \in {400, 401, 405}

\* The code of the first test of the gate that the request fails, 0 if none.
FirstFailure(request) ==
    IF ~request.authorized THEN 401
    ELSE IF request.method \notin {"POST", "PUT"} THEN 405
    ELSE IF ~request.url THEN 400
    ELSE 0

\* C33: the gate of fetch tests the authorization (401), then the method (405),
\* then the presence of the url (400), before any side effect: the answer of a
\* rejected request is that of the first test it fails, and the rejection makes
\* no metadata, raw content, rule-store or model call, stores nothing and
\* sends nothing to the queue.
C33_GateBeforeSideEffects ==
    /\ [](\A t \in Handlers :
             /\ Rejected(task[t]) =>
                   /\ task[t].response.code = FirstFailure(task[t].request)
                   /\ task[t].run = NewRun
                   /\ task[t].writer = NoWriter
             /\ (task[t].kind = "fetch" /\ FirstFailure(task[t].request) \in {401, 405}) =>
                   Rejected(task[t]))
    /\ [][\A t \in Tasks :
             (task[t].pc = "idle" /\ task'[t].kind = "fetch" /\ Rejected(task'[t])) =>
                 /\ queue' = queue
                 /\ knowledge' = knowledge
                 /\ createdAt' = createdAt]_vars

\* An unauthorized GET request without a url was answered 401 while
\* markdown is stored and a message waits on the queue.
C33_Witness ==
    \E t \in Handlers :
        /\ Rejected(task[t])
        /\ task[t].response.code = 401
        /\ task[t].request.method = "GET"
        /\ ~task[t].request.url
        /\ queue # <<>>
        /\ \E k \in R2Keys : knowledge[k] # NoMarkdown

\* ------------------------------------------ properties of preprocessHTML

\* Rule k of the list is a css rule with a selector that $() accepts.
CssRule(k) == pre.rules[k].type = "css" /\ pre.rules[k].selector # "bad"

\* Processing rule k raises.
RuleRaises(k) == pre.rules[k].type = "css" /\ pre.rules[k].selector = "bad"

\* The rules that selected at least one element when they were processed.
Contributing == {k \in 1..pre.idx : CssRule(k) /\ pre.selected[k] # {}}

\* C21: with an empty rule list preprocessHTML returns exactly one fragment,
\* the body text, for every document, also when the body is empty.
C21_NoRulesOneFragment ==
    (pre.pc = "done" /\ pre.rules = <<>>) =>
        /\ Len(pre.processedHtml) = 1
        /\ pre.processedHtml[1].kind = "text"

\* A document with no element in its body, no rules, and the one fragment returned.
C21_Witness ==
    /\ pre.pc = "done"
    /\ pre.rules = <<>>
    /\ \A n \in Elements : ~pre.html[n].live
    /\ Len(pre.processedHtml) = 1

\* C22: with a non-empty rule list the fragments are, in rule order, one for
\* each css rule whose selector matched at least one element and whose
\* processing did not raise; a rule of another type or one that matches nothing
\* contributes no fragment, and every rule of the list is processed.
C22_OneFragmentPerMatchingRule ==
    (pre.pc = "done" /\ pre.rules # <<>>) =>
        /\ pre.idx = Len(pre.rules)
        /\ Len(pre.processedHtml) = Cardinality(Contributing)
        /\ \A j \in 1..Len(pre.processedHtml) :
              /\ pre.processedHtml[j].kind = "html"
              /\ pre.processedHtml[j].rule \in Contributing
              /\ \A h \in 1..(j - 1) : pre.processedHtml[h].rule < pre.processedHtml[j].rule
        /\ (\A k \in 1..Len(pre.rules) : ExcludeOf(pre.rules[k]) = "") =>
              Contributing = {k \in 1..Len(pre.rules) :
                                 CssRule(k) /\ Select(pre.doc, pre.rules[k].selector) # {}}

\* A rule that matched nothing (or is of another type) came first and the rule
\* after it gave the only fragment.
C22_Witness ==
    /\ pre.pc = "done"
    /\ Len(pre.rules) = 2
    /\ ~RuleRaises(1)
    /\ Contributing = {2}
    /\ Len(pre.processedHtml) = 1

\* C23: if processing a rule raises, preprocessHTML does not raise: the rule is
\* skipped, the fragments of the rules before it are kept, the document is left
\* as it was, and the rules after it are still processed.
C23_RaisingRuleSkipped ==
    [][/\ pre'.pc # "raised"
       /\ (pre.pc = "rules" /\ pre.idx < Len(pre.rules) /\ RuleRaises(pre.idx + 1)) =>
             /\ pre'.pc = "rules"
             /\ pre'.idx = pre.idx + 1
             /\ pre'.processedHtml = pre.processedHtml
             /\ pre'.doc = pre.doc
       /\ pre'.pc = "done" => pre'.idx = Len(pre'.rules)]_vars

\* A list whose first rule gave a fragment, whose second rule raised, and that
\* was processed to its end.
C23_Witness ==
    /\ pre.pc = "done"
    /\ Len(pre.rules) = 2
    /\ RuleRaises(2)
    /\ Len(pre.processedHtml) = 1
    /\ pre.processedHtml[1].rule = 1

\* C24: the fragment pushed for a css rule with a non-empty exclude holds no
\* element matching exclude.
C24_ExcludedSubtreeRemoved ==
    \A j \in 1..Len(pre.processedHtml) :
        LET fragment == pre.processedHtml[j]
        IN  (fragment.kind = "html" /\ ExcludeOf(pre.rules[fragment.rule]) # "") =>
                \A e \in 1..Len(fragment.elements) :
                    fragment.elements[e].tag # ExcludeOf(pre.rules[fragment.rule])

\* A rule with an exclude selected element 1 of a document in which element 2,
\* below it, matches the exclude.
C24_Witness ==
    \E j \in 1..Len(pre.processedHtml) :
        /\ pre.processedHtml[j].kind = "html"
        /\ ExcludeOf(pre.rules[pre.processedHtml[j].rule]) = "p"
        /\ pre.rules[pre.processedHtml[j].rule].selector = pre.html[1].tag
        /\ pre.html[2].live
        /\ pre.html[2].tag = "p"

\* C25: no fragment returned holds a script element, a style element, a style
\* attribute, or an img element whose src begins with data:.
C25_FragmentsCleaned ==
    pre.pc = "done" =>
        \A j \in 1..Len(pre.processedHtml) :
            \A e \in 1..Len(pre.processedHtml[j].elements) :
                LET element == pre.processedHtml[j].elements[e]
                IN  /\ element.tag \notin {"script", "style"}
                    /\ element.attr # "style"
                    /\ ~(element.tag = "img" /\ element.attr = "data")

\* The elements a fragment holds.
NodesOf(fragment) == {fragment.elements[e].node : e \in 1..Len(fragment.elements)}

\* The elements of the document that are not in the tree.
Pruned(doc) == {n \in Elements : ~doc[n].live}

\* C34: what the exclude of a rule removes stays removed for the rest of the
\* call: within a call no element comes back into the tree, and the fragment a
\* rule pushes holds no element pruned before that rule; a second call on the
\* same html and the same rules starts from the unpruned document and returns
\* the same title and the same fragments.
C34_PruningPersistsWithinCall ==
    /\ [][/\ (pre.pc = "rules" /\ pre'.pc = "rules") =>
                /\ Pruned(pre.doc) \subseteq Pruned(pre'.doc)
                /\ SubSeq(pre'.processedHtml, 1, Len(pre.processedHtml)) = pre.processedHtml
                /\ Len(pre'.processedHtml) > Len(pre.processedHtml) =>
                      NodesOf(pre'.processedHtml[Len(pre'.processedHtml)])
                          \cap Pruned(pre.doc) = {}
          /\ (pre.pc = "done" /\ pre'.pc = "clean") =>
                /\ pre'.doc = pre.html
                /\ pre'.html = pre.html
                /\ pre'.htmlTitle = pre.htmlTitle
                /\ pre'.rules = pre.rules]_vars
    /\ []((pre.pc = "done" /\ pre.call = 2) =>
              /\ pre.title = pre.earlier[1].title
              /\ pre.processedHtml = pre.earlier[1].processedHtml)

\* The second call has returned for rules of which the first pruned element 2
\* below element 1 and the second selected element 1 again: both calls returned
\* two fragments, neither holding element 2.
C34_Witness ==
    /\ pre.pc = "done"
    /\ pre.call = 2
    /\ Len(pre.rules) = 2
    /\ ExcludeOf(pre.rules[1]) = "p"
    /\ ExcludeOf(pre.rules[2]) = ""
    /\ pre.html[2].live
    /\ pre.html[2].tag = "p"
    /\ ~pre.doc[2].live
    /\ Len(pre.processedHtml) = 2
    /\ pre.earlier[1].processedHtml = pre.processedHtml
    /\ \A j \in 1..2 : 2 \notin NodesOf(pre.processedHtml[j])

====
